---- MODULE Spec2Model ----
(***************************************************************************)
(* Model of .github/actions/linode-machine-manager/index.js: the run()     *)
(* orchestration (create / destroy / cleanup-on-failure), waitForSSH and   *)
(* unregisterRunner.  External services (Linode API, GitHub REST API, the  *)
(* ssh transport) are the environment: each call either returns a value    *)
(* drawn from a small set or throws.                                       *)
(***************************************************************************)
EXTENDS Integers, Sequences, FiniteSets, TLC

\* ---------------------------------------------------------------- bounds
\* largest number of consecutive failures of the ssh transport before it
\* starts to succeed (a value >= retries is a transport that never succeeds
\* within the retry budget)
MaxFailN == 12
\* largest number of instances returned by getLinodes
MaxInstances == 2
\* largest number of runners returned by the runner list
MaxRunners == 2
\* longest tags string whose parsing is explored exhaustively
MaxTagLen == 4

\* ------------------------------------------------------ program constants
\* waitForSSH(ip, rootPassword, retries = 10, delay = 30000)
retries == 10
delay == 30000

NULL == "null"
DefaultLabel == "self-hosted"

\* ------------------------------------------------------------ JS helpers
\* truthiness of a string-or-null value: '' and null are falsy
Truthy(v) == v # NULL /\ v # ""

\* a || b on strings
OrElse(a, b) == IF Truthy(a) THEN a ELSE b

\* String.prototype.includes on character sequences
StrIncludes(s, sub) ==
  \E k \in 0..(Len(s) - Len(sub)) : SubSeq(s, k + 1, k + Len(sub)) = sub

\* Array.prototype.includes
ArrIncludes(arr, x) == \E k \in 1..Len(arr) : arr[k] = x

\* error objects: message text with its interpolated arguments
Msg(text, arg, n) == [text |-> text, arg |-> arg, n |-> n]
Err(text, arg, n, status) == [message |-> Msg(text, arg, n), status |-> status]

\* ---------------------------------------------------------- input domains
Actions == {"create", "destroy", "restart"}
MachineIds == {"", "55"}
SearchPhrases == {<<>>, <<"a">>, <<"a", "b">>}
RunnerLabels == {"", "ci"}
Owners == {"", "acme"}
Repos == {"", "widgets"}
MachineTypes == {"", "g6-standard-1"}
Images == {"", "linux-default"}

\* ------------------------------------------------------------ tags input
\* characters of a tags string: letters, the delimiter, whitespace
TagChars == {"a", "b", ",", " "}

\* String.prototype.trim on character sequences
RECURSIVE TrimStart(_)
TrimStart(s) == IF s # <<>> /\ Head(s) = " " THEN TrimStart(Tail(s)) ELSE s

RECURSIVE TrimEnd(_)
TrimEnd(s) ==
  IF s # <<>> /\ s[Len(s)] = " " THEN TrimEnd(SubSeq(s, 1, Len(s) - 1)) ELSE s

Trim(s) == TrimEnd(TrimStart(s))

\* String.prototype.split(','): the pieces between the delimiters, in order;
\* n pieces for n - 1 delimiters, empty pieces included
RECURSIVE SplitFrom(_, _)
SplitFrom(s, piece) ==
  IF s = <<>> THEN <<piece>>
  ELSE IF Head(s) = "," THEN <<piece>> \o SplitFrom(Tail(s), <<>>)
       ELSE SplitFrom(Tail(s), Append(piece, Head(s)))

Split(s) == SplitFrom(s, <<>>)

\* run, line 80: getInput('tags') ? getInput('tags').split(',').map(tag => tag.trim()) : []
ParseTags(raw) ==
  IF raw # <<>> THEN [k \in 1..Len(Split(raw)) |-> Trim(Split(raw)[k])] ELSE <<>>

\* "a, b ,c"
ExampleTags == <<"a", ",", " ", "b", " ", ",", "c">>

\* the values core.getInput('tags') can return: getInput hands the value out
\* with its surrounding whitespace removed
TagStrings ==
  {s \in UNION {[1..k -> TagChars] : k \in 0..MaxTagLen} : Trim(s) = s} \cup {ExampleTags}

\* tags strings of the runs of the whole action
RunTagStrings == {<<>>, ExampleTags}

\* instances the provider can create
NewLinodes == {[id |-> "101", ipv4 |-> "10.0.0.1"], [id |-> "102", ipv4 |-> "10.0.0.2"]}

\* instances the provider can list
InstancePool ==
  { [id |-> "201", label |-> <<"a", "b">>, tags |-> <<>>],
    [id |-> "202", label |-> <<"b">>, tags |-> << <<"a">> >>],
    [id |-> "203", label |-> <<"c">>, tags |-> << <<"a", "b">>, <<"c">> >>],
    [id |-> "204", label |-> <<"b", "a">>, tags |-> <<>>] }

\* runners the registry can list
RunnerPool ==
  { [id |-> "r1", labels |-> <<"self-hosted", "linux">>],
    [id |-> "r2", labels |-> <<"ci">>],
    [id |-> "r3", labels |-> <<"linux", "ci">>] }

\* sequences without repetition of at most n elements of S
DistinctSeqs(S, n) ==
  {s \in UNION {[1..k -> S] : k \in 0..n} :
     \A a, b \in 1..Len(s) : a # b => s[a] # s[b]}

InstanceLists == DistinctSeqs(InstancePool, MaxInstances)
RunnerLists == DistinctSeqs(RunnerPool, MaxRunners)

Tokens == {"tokA", "tokB"}
\* HTTP statuses the runner registry can answer with
Statuses == {200, 204, 404, 422, 500}

VARIABLES
  pc,            \* position of run()
  inp,           \* the inputs read by core.getInput
  linodeId,      \* let linodeId (function scope of run)
  ipv4,          \* const { ipv4 } = linode
  registrationToken,
  target,        \* the id handed to deleteLinode
  caller,        \* who called unregisterRunner: "destroy" or "cleanup"
  runner,        \* the runner found by unregisterRunner
  error,         \* the error caught by run's catch
  transportN,    \* environment: the ssh transport fails this many times
  i,             \* waitForSSH loop counter
  probes,        \* ssh attempts made by waitForSSH
  sleeps,        \* sleep(delay) calls made by waitForSSH
  sshResult,     \* how waitForSSH ended: "none", "true" or "threw"
  outputs,       \* core.setOutput
  failed,        \* core.setFailed messages, in order
  logged,        \* core.error messages, in order
  trace          \* external calls, in order

vars == <<pc, inp, linodeId, ipv4, registrationToken, target, caller, runner,
          error, transportN, i, probes, sleeps, sshResult, outputs, failed, logged, trace>>

NoInputs == [action |-> "", githubToken |-> "", machineId |-> "", searchPhrase |-> <<>>,
             baseLabel |-> "", rootPassword |-> "", machineType |-> "", image |-> "",
             tagsRaw |-> <<>>, tags |-> <<>>, repoOwner |-> "", repoName |-> ""]
NoError == Err("", <<>>, 0, 0)
NoOutputs == [n \in {} |-> ""]

\* an external call with a string, a number or a record as its argument or result
NoRecord == [none |-> TRUE]
Ev(op, arg) == [op |-> op, arg |-> arg, n |-> 0, rec |-> NoRecord]
EvN(op, n) == [op |-> op, arg |-> "", n |-> n, rec |-> NoRecord]
EvR(op, rec) == [op |-> op, arg |-> "", n |-> 0, rec |-> rec]

Init ==
  /\ pc = "start"
  /\ inp = NoInputs
  /\ linodeId = NULL
  /\ ipv4 = NULL
  /\ registrationToken = NULL
  /\ target = NULL
  /\ caller = NULL
  /\ runner = NULL
  /\ error = NoError
  /\ transportN = 0
  /\ i = 0
  /\ probes = 0
  /\ sleeps = 0
  /\ sshResult = "none"
  /\ outputs = NoOutputs
  /\ failed = <<>>
  /\ logged = <<>>
  /\ trace = <<>>

\* run, lines 72-90: read the inputs
ReadInputs ==
  /\ pc = "start"
  /\ \E a \in Actions, m \in MachineIds, s \in SearchPhrases, l \in RunnerLabels,
        o \in Owners, r \in Repos, mt \in MachineTypes, im \in Images,
        raw \in RunTagStrings :
       inp' = [action |-> a, githubToken |-> "ghs", machineId |-> m, searchPhrase |-> s,
               baseLabel |-> OrElse(l, DefaultLabel), rootPassword |-> "pw",
               machineType |-> mt, image |-> im, tagsRaw |-> raw, tags |-> ParseTags(raw),
               repoOwner |-> o, repoName |-> r]
  /\ pc' = "validate"
  /\ UNCHANGED <<sshResult, linodeId, ipv4, registrationToken, target, caller, runner, error,
                 transportN, i, probes, sleeps, outputs, failed, logged, trace>>

\* ------------------------------------------------------------ scoping
\* let linodeId, line 70: scope of the whole function body of run
FunctionScope == {"linodeId"}
\* the const declarations of lines 72-82: scope of the try block only
TryBlockScope == {"githubToken", "action", "machineId", "searchPhrase", "baseLabel",
                  "rootPassword", "machineType", "image", "tags", "repoOwner", "repoName"}
\* module-level bindings, lines 1-9, 12, 26, 69
ModuleScope == {"core", "execSync", "setToken", "getLinodes", "createLinode",
                "deleteLinode", "axios", "util", "sleep", "linodeToken",
                "waitForSSH", "unregisterRunner", "run"}
\* identifiers visible inside catch (error) { ... }, lines 185-197
CatchScope == ModuleScope \cup FunctionScope \cup {"error"}
\* identifiers evaluated as arguments of unregisterRunner at line 190
CleanupArgs == {"repoOwner", "repoName", "githubToken", "baseLabel"}

\* ------------------------------------------------------- control helpers
Goto(p) == pc' = p /\ error' = error
Throw(e) == pc' = "catch" /\ error' = e

\* axios resolves on a 2xx status and rejects otherwise
AxiosResolves(st) == st >= 200 /\ st < 300
AxiosError(st) == Err("Request failed with status code", <<>>, st, st)

\* the message of line 194, logged by the catch of the cleanup
CleanupLog(e) == Msg("Failed to destroy Linode machine during cleanup", <<linodeId>>, e.message.n)

\* variant of Validate: the identity is rejected only when both fields are empty
Validate_BothMissing ==
  /\ pc = "validate"
  /\ IF ~Truthy(inp.repoOwner) /\ ~Truthy(inp.repoName)
       THEN Throw(Err("Both organization and repo_name inputs are required.", <<>>, 0, 0))
     ELSE IF inp.action = "create" THEN Goto("createLinode")
     ELSE IF inp.action = "destroy" THEN Goto("destroy")
     ELSE Throw(Err("Invalid action. Use create or destroy.", <<>>, 0, 0))
  /\ UNCHANGED <<sshResult, inp, linodeId, ipv4, registrationToken, target, caller, runner,
                 transportN, i, probes, sleeps, outputs, failed, logged, trace>>

\* run, lines 92-96, 153, 182-184: validation of the identity and dispatch
Validate ==
  /\ pc = "validate"
  /\ IF ~Truthy(inp.repoOwner) \/ ~Truthy(inp.repoName)
       THEN Throw(Err("Both organization and repo_name inputs are required.", <<>>, 0, 0))
     ELSE IF inp.action = "create" THEN Goto("createLinode")
     ELSE IF inp.action = "destroy" THEN Goto("destroy")
     ELSE Throw(Err("Invalid action. Use create or destroy.", <<>>, 0, 0))
  /\ UNCHANGED <<sshResult, inp, linodeId, ipv4, registrationToken, target, caller, runner,
                 transportN, i, probes, sleeps, outputs, failed, logged, trace>>

\* ------------------------------------------------------------ create path
\* run, lines 98-105: the request handed to createLinode
CreateRequest ==
  [region |-> "us-east", type |-> inp.machineType, image |-> inp.image,
   root_pass |-> inp.rootPassword, label |-> inp.baseLabel, tags |-> inp.tags]

\* run, lines 97-111: createLinode returns; the id and the address are
\* stored and emitted as outputs at once
CreateLinodeOk ==
  /\ pc = "createLinode"
  /\ \E linode \in NewLinodes, n \in 0..MaxFailN :
       /\ linodeId' = linode.id
       /\ ipv4' = linode.ipv4
       /\ transportN' = n
       /\ outputs' = ("machine_ip" :> linode.ipv4) @@ ("machine_id" :> linode.id) @@ outputs
       /\ trace' = trace \o <<EvR("createLinode.request", CreateRequest),
                              Ev("createLinode", linode.id),
                              Ev("setOutput", "machine_id"), Ev("setOutput", "machine_ip")>>
  /\ i' = 0
  /\ Goto("waitForSSH")
  /\ UNCHANGED <<sshResult, inp, registrationToken, target, caller, runner, probes, sleeps,
                 failed, logged>>

\* run, line 98: createLinode rejects
CreateLinodeFail ==
  /\ pc = "createLinode"
  /\ trace' = trace \o <<EvR("createLinode.request", CreateRequest), Ev("createLinode", NULL)>>
  /\ Throw(Err("createLinode failed", <<>>, 0, 400))
  /\ UNCHANGED <<sshResult, inp, linodeId, ipv4, registrationToken, target, caller, runner,
                 transportN, i, probes, sleeps, outputs, failed, logged>>

\* variants of LoopCond: one attempt fewer, one attempt more
LoopCond_StopsEarly(k) == k < retries - 1
LoopCond_OneMore(k) == k <= retries

\* waitForSSH, line 13: the loop condition
LoopCond(k) == k < retries

\* the environment: the transport fails its first transportN commands
TransportFails == probes < transportN

\* waitForSSH, lines 14-17: the probe succeeds, return true
SSHProbeOk ==
  /\ pc = "waitForSSH"
  /\ LoopCond(i)
  /\ ~TransportFails
  /\ probes' = probes + 1
  /\ trace' = Append(trace, Ev("ssh", ipv4))
  /\ Goto("mint")
  /\ sshResult' = "true"
  /\ UNCHANGED <<inp, linodeId, ipv4, registrationToken, target, caller, runner,
                 transportN, i, sleeps, outputs, failed, logged>>

\* variant of SSHProbeFail: no sleep after the last attempt
SSHProbeFail_NoLastSleep ==
  /\ pc = "waitForSSH"
  /\ LoopCond(i)
  /\ TransportFails
  /\ probes' = probes + 1
  /\ sleeps' = IF i < retries - 1 THEN sleeps + 1 ELSE sleeps
  /\ i' = i + 1
  /\ trace' = IF i < retries - 1 THEN trace \o <<Ev("ssh", ipv4), EvN("sleep", delay)>>
               ELSE Append(trace, Ev("ssh", ipv4))
  /\ Goto("waitForSSH")
  /\ UNCHANGED <<sshResult, inp, linodeId, ipv4, registrationToken, target, caller, runner,
                 transportN, outputs, failed, logged>>

\* waitForSSH, lines 14-21 and the i++ of line 13: the probe fails, sleep
SSHProbeFail ==
  /\ pc = "waitForSSH"
  /\ LoopCond(i)
  /\ TransportFails
  /\ probes' = probes + 1
  /\ sleeps' = sleeps + 1
  /\ i' = i + 1
  /\ trace' = trace \o <<Ev("ssh", ipv4), EvN("sleep", delay)>>
  /\ Goto("waitForSSH")
  /\ UNCHANGED <<sshResult, inp, linodeId, ipv4, registrationToken, target, caller, runner,
                 transportN, outputs, failed, logged>>

\* waitForSSH, line 23: the loop ran out
SSHExhausted ==
  /\ pc = "waitForSSH"
  /\ ~LoopCond(i)
  /\ Throw(Err("Unable to connect after attempts", <<ipv4>>, retries, 0))
  /\ sshResult' = "threw"
  /\ UNCHANGED <<inp, linodeId, ipv4, registrationToken, target, caller, runner,
                 transportN, i, probes, sleeps, outputs, failed, logged, trace>>

\* run, lines 116-129: the registration token is minted
MintOk ==
  /\ pc = "mint"
  /\ \E t \in Tokens :
       /\ registrationToken' = t
       /\ trace' = Append(trace, Ev("mint", t))
  /\ Goto("configure")
  /\ UNCHANGED <<sshResult, inp, linodeId, ipv4, target, caller, runner, transportN, i, probes,
                 sleeps, outputs, failed, logged>>

\* run, line 117: axios.post rejects
MintFail ==
  /\ pc = "mint"
  /\ \E st \in {s \in Statuses : ~AxiosResolves(s)} :
       /\ trace' = Append(trace, Ev("mint", NULL))
       /\ Throw(AxiosError(st))
  /\ UNCHANGED <<sshResult, inp, linodeId, ipv4, registrationToken, target, caller, runner,
                 transportN, i, probes, sleeps, outputs, failed, logged>>

\* run, lines 131-140: the configuration script and its substitutions
RunnerScript(owner, repo, token, label) ==
  [url |-> <<owner, repo>>, token |-> token, labels |-> label, name |-> label]

\* variant of ThisScript: the API token is embedded instead of the minted one
ThisScript_WrongToken == RunnerScript(inp.repoOwner, inp.repoName, inp.githubToken, inp.baseLabel)

ThisScript == RunnerScript(inp.repoOwner, inp.repoName, registrationToken, inp.baseLabel)

\* variant of ConfigureOk: the create path falls through to the deletion
ConfigureOk_ThenDelete ==
  /\ pc = "configure"
  /\ trace' = trace \o <<EvR("configure", ThisScript), Ev("setOutput", "runner_label")>>
  /\ outputs' = ("runner_label" :> inp.baseLabel) @@ outputs
  /\ target' = linodeId
  /\ caller' = "destroy"
  /\ Goto("deleteLinode")
  /\ UNCHANGED <<sshResult, inp, linodeId, ipv4, registrationToken, runner,
                 transportN, i, probes, sleeps, failed, logged>>

\* run, lines 142-151: the script runs, runner_label is emitted
ConfigureOk ==
  /\ pc = "configure"
  /\ trace' = trace \o <<EvR("configure", ThisScript), Ev("setOutput", "runner_label")>>
  /\ outputs' = ("runner_label" :> inp.baseLabel) @@ outputs
  /\ Goto("Done")
  /\ UNCHANGED <<sshResult, inp, linodeId, ipv4, registrationToken, target, caller, runner,
                 transportN, i, probes, sleeps, failed, logged>>

\* variant of ConfigureFail: runner_label is emitted before the script runs
ConfigureFail_LabelFirst ==
  /\ pc = "configure"
  /\ trace' = trace \o <<Ev("setOutput", "runner_label"), EvR("configure", ThisScript)>>
  /\ outputs' = ("runner_label" :> inp.baseLabel) @@ outputs
  /\ logged' = Append(logged, Msg("Runner setup failed", <<>>, 1))
  /\ Throw(Err("Command failed", <<ipv4>>, 1, 0))
  /\ UNCHANGED <<sshResult, inp, linodeId, ipv4, registrationToken, target, caller, runner,
                 transportN, i, probes, sleeps, failed>>

\* run, lines 143-149: the script fails, the error is logged and rethrown
ConfigureFail ==
  /\ pc = "configure"
  /\ trace' = Append(trace, EvR("configure", ThisScript))
  /\ logged' = Append(logged, Msg("Runner setup failed", <<>>, 1))
  /\ Throw(Err("Command failed", <<ipv4>>, 1, 0))
  /\ UNCHANGED <<sshResult, inp, linodeId, ipv4, registrationToken, target, caller, runner,
                 transportN, i, probes, sleeps, outputs, failed>>

\* ----------------------------------------------------------- destroy path
\* run, lines 162-166: the search policy
Matches(instance, phrase) ==
  \/ StrIncludes(instance.label, phrase)
  \/ instance.label = phrase
  \/ ArrIncludes(instance.tags, phrase)

\* run, lines 162-166: instances.data.filter(...)
RECURSIVE MatchingInstances(_, _)
MatchingInstances(instances, phrase) ==
  IF instances = <<>> THEN <<>>
  ELSE IF Matches(Head(instances), phrase)
         THEN <<Head(instances)>> \o MatchingInstances(Tail(instances), phrase)
       ELSE MatchingInstances(Tail(instances), phrase)

\* variant of SingleMatch: any non-empty match set is taken
SingleMatch_AtLeastOne(m) == Len(m) >= 1

\* run, line 168
SingleMatch(m) == Len(m) = 1

\* variant of DestroyById: the instance is deleted without unregistration
DestroyById_DeleteFirst ==
  /\ pc = "destroy"
  /\ Truthy(inp.machineId)
  /\ target' = inp.machineId
  /\ caller' = "destroy"
  /\ Goto("deleteLinode")
  /\ UNCHANGED <<sshResult, inp, linodeId, ipv4, registrationToken, runner, transportN, i,
                 probes, sleeps, outputs, failed, logged, trace>>

\* run, lines 154-156: destroy by machine id, unregistration comes first
DestroyById ==
  /\ pc = "destroy"
  /\ Truthy(inp.machineId)
  /\ target' = inp.machineId
  /\ caller' = "destroy"
  /\ Goto("runnersGet")
  /\ UNCHANGED <<sshResult, inp, linodeId, ipv4, registrationToken, runner, transportN, i,
                 probes, sleeps, outputs, failed, logged, trace>>

\* variant of GetLinodesOk: the search runs even when a machine id is given
GetLinodesOk_IgnoresId ==
  /\ pc = "destroy"
  /\ inp.searchPhrase # <<>>
  /\ \E instances \in InstanceLists :
       LET m == MatchingInstances(instances, inp.searchPhrase) IN
         /\ trace' = Append(trace, EvN("getLinodes", Len(m)))
         /\ IF SingleMatch(m)
              THEN /\ target' = m[1].id
                   /\ caller' = "destroy"
                   /\ Goto("runnersGet")
            ELSE IF Len(m) = 0
              THEN /\ Throw(Err("No Linode instances found matching the search phrase",
                                inp.searchPhrase, 0, 0))
                   /\ UNCHANGED <<sshResult, target, caller>>
            ELSE /\ Throw(Err("Multiple Linode instances found matching the search phrase",
                              inp.searchPhrase, 0, 0))
                 /\ UNCHANGED <<sshResult, target, caller>>
  /\ UNCHANGED <<sshResult, inp, linodeId, ipv4, registrationToken, runner, transportN, i,
                 probes, sleeps, outputs, failed, logged>>

\* run, lines 159-178: destroy by search phrase, getLinodes returns
GetLinodesOk ==
  /\ pc = "destroy"
  /\ ~Truthy(inp.machineId)
  /\ inp.searchPhrase # <<>>
  /\ \E instances \in InstanceLists :
       LET m == MatchingInstances(instances, inp.searchPhrase) IN
         /\ trace' = Append(trace, EvN("getLinodes", Len(m)))
         /\ IF SingleMatch(m)
              THEN /\ target' = m[1].id
                   /\ caller' = "destroy"
                   /\ Goto("runnersGet")
            ELSE IF Len(m) = 0
              THEN /\ Throw(Err("No Linode instances found matching the search phrase",
                                inp.searchPhrase, 0, 0))
                   /\ UNCHANGED <<sshResult, target, caller>>
            ELSE /\ Throw(Err("Multiple Linode instances found matching the search phrase",
                              inp.searchPhrase, 0, 0))
                 /\ UNCHANGED <<sshResult, target, caller>>
  /\ UNCHANGED <<sshResult, inp, linodeId, ipv4, registrationToken, runner, transportN, i,
                 probes, sleeps, outputs, failed, logged>>

\* run, line 161: getLinodes rejects
GetLinodesFail ==
  /\ pc = "destroy"
  /\ ~Truthy(inp.machineId)
  /\ inp.searchPhrase # <<>>
  /\ trace' = Append(trace, EvN("getLinodes", -1))
  /\ Throw(Err("getLinodes failed", <<>>, 0, 500))
  /\ UNCHANGED <<sshResult, inp, linodeId, ipv4, registrationToken, target, caller, runner,
                 transportN, i, probes, sleeps, outputs, failed, logged>>

\* variant of DestroyNoTarget: the empty machine id is destroyed
DestroyNoTarget_Deletes ==
  /\ pc = "destroy"
  /\ ~Truthy(inp.machineId)
  /\ inp.searchPhrase = <<>>
  /\ target' = inp.machineId
  /\ caller' = "destroy"
  /\ Goto("runnersGet")
  /\ UNCHANGED <<sshResult, inp, linodeId, ipv4, registrationToken, runner, transportN, i,
                 probes, sleeps, outputs, failed, logged, trace>>

\* run, lines 179-181: neither a machine id nor a search phrase
DestroyNoTarget ==
  /\ pc = "destroy"
  /\ ~Truthy(inp.machineId)
  /\ inp.searchPhrase = <<>>
  /\ Throw(Err("Either machine_id or search_phrase must be provided for destruction",
               <<>>, 0, 0))
  /\ UNCHANGED <<sshResult, inp, linodeId, ipv4, registrationToken, target, caller, runner,
                 transportN, i, probes, sleeps, outputs, failed, logged, trace>>

\* ------------------------------------------------------- unregisterRunner
\* unregisterRunner, line 39: runners.find(r => r.labels.some(l => l.name === runnerLabel))
RECURSIVE FindRunner(_, _)
FindRunner(runners, label) ==
  IF runners = <<>> THEN NULL
  ELSE IF ArrIncludes(Head(runners).labels, label) THEN Head(runners).id
       ELSE FindRunner(Tail(runners), label)

\* unregisterRunner, lines 59-66: the log line of its catch block
UnregisterLog(e) ==
  IF e.status = 422 THEN Msg("Failed to unregister runner: status", <<>>, 422)
  ELSE Msg("Failed to unregister runner: message", <<>>, e.message.n)

\* unregisterRunner, line 65 (throw error) as seen by its caller: the try of
\* run (lines 156, 171) hands it to catch (error); the try of the cleanup
\* (line 190) hands it to catch (cleanupError)
Rethrow(e) ==
  IF caller = "destroy"
    THEN /\ Throw(e)
         /\ logged' = Append(logged, UnregisterLog(e))
    ELSE /\ Goto("Failed")
         /\ logged' = logged \o <<UnregisterLog(e), CleanupLog(e)>>

\* variant of RunnersGetOk: a missing runner is an error
RunnersGetOk_NotFoundThrows ==
  /\ pc = "runnersGet"
  /\ \E runners \in RunnerLists :
       LET r == FindRunner(runners, inp.baseLabel) IN
         /\ trace' = Append(trace, Ev("runners.get", r))
         /\ runner' = r
         /\ IF r # NULL THEN Goto("runnerDelete")
            ELSE Throw(Err("Cannot read properties of undefined", <<>>, 0, 0))
  /\ UNCHANGED <<sshResult, inp, linodeId, ipv4, registrationToken, target, caller, transportN,
                 i, probes, sleeps, outputs, failed, logged>>

\* unregisterRunner, lines 29-41 and 56-58: the runner list arrives
RunnersGetOk ==
  /\ pc = "runnersGet"
  /\ \E runners \in RunnerLists :
       LET r == FindRunner(runners, inp.baseLabel) IN
         /\ trace' = Append(trace, Ev("runners.get", r))
         /\ runner' = r
         /\ IF r # NULL THEN Goto("runnerDelete") ELSE Goto("deleteLinode")
  /\ UNCHANGED <<sshResult, inp, linodeId, ipv4, registrationToken, target, caller, transportN,
                 i, probes, sleeps, outputs, failed, logged>>

\* unregisterRunner, lines 29 and 59-66: axios.get rejects
RunnersGetFail ==
  /\ pc = "runnersGet"
  /\ \E st \in {s \in Statuses : ~AxiosResolves(s)} :
       /\ trace' = Append(trace, EvN("runners.get.failed", st))
       /\ Rethrow(AxiosError(st))
  /\ UNCHANGED <<sshResult, inp, linodeId, ipv4, registrationToken, target, caller, runner,
                 transportN, i, probes, sleeps, outputs, failed>>

\* unregisterRunner, lines 42-55: axios.delete resolves; a status other than
\* 204 is logged and the function returns normally
RunnerDeleteReturns ==
  /\ pc = "runnerDelete"
  /\ \E st \in {s \in Statuses : AxiosResolves(s)} :
       /\ trace' = Append(trace, EvN("runners.delete", st))
       /\ logged' = IF st = 204 THEN logged
                    ELSE Append(logged, Msg("Failed to unregister runner: status", <<>>, st))
  /\ Goto("deleteLinode")
  /\ UNCHANGED <<sshResult, inp, linodeId, ipv4, registrationToken, target, caller, runner,
                 transportN, i, probes, sleeps, outputs, failed>>

\* unregisterRunner, lines 42 and 59-66: axios.delete rejects
RunnerDeleteThrows ==
  /\ pc = "runnerDelete"
  /\ \E st \in {s \in Statuses : ~AxiosResolves(s)} :
       /\ trace' = Append(trace, EvN("runners.delete.failed", st))
       /\ Rethrow(AxiosError(st))
  /\ UNCHANGED <<sshResult, inp, linodeId, ipv4, registrationToken, target, caller, runner,
                 transportN, i, probes, sleeps, outputs, failed>>

\* ------------------------------------------------------------ deleteLinode
\* run, lines 157-158, 172-173 (then the run is done) and 191-192 (then the
\* failed run is over)
DeleteLinodeOk ==
  /\ pc = "deleteLinode"
  /\ trace' = Append(trace, Ev("deleteLinode", target))
  /\ IF caller = "destroy" THEN Goto("Done") ELSE Goto("Failed")
  /\ UNCHANGED <<sshResult, inp, linodeId, ipv4, registrationToken, target, caller, runner,
                 transportN, i, probes, sleeps, outputs, failed, logged>>

\* run, lines 157, 172, 191: deleteLinode rejects
DeleteLinodeFail ==
  /\ pc = "deleteLinode"
  /\ trace' = Append(trace, Ev("deleteLinode.failed", target))
  /\ LET e == Err("deleteLinode failed", <<target>>, 0, 404) IN
       IF caller = "destroy"
         THEN Throw(e) /\ logged' = logged
         ELSE Goto("Failed") /\ logged' = Append(logged, CleanupLog(e))
  /\ UNCHANGED <<sshResult, inp, linodeId, ipv4, registrationToken, target, caller, runner,
                 transportN, i, probes, sleeps, outputs, failed>>

\* variant of Catch: the failure is not reported
Catch_Silent ==
  /\ pc = "catch"
  /\ failed' = failed
  /\ IF Truthy(linodeId) THEN Goto("cleanup") ELSE Goto("Failed")
  /\ UNCHANGED <<sshResult, inp, linodeId, ipv4, registrationToken, target, caller, runner,
                 transportN, i, probes, sleeps, outputs, logged, trace>>

\* variant of Catch: the cleanup runs without an instance id
Catch_AlwaysCleanup ==
  /\ pc = "catch"
  /\ failed' = Append(failed, error.message)
  /\ Goto("cleanup")
  /\ UNCHANGED <<sshResult, inp, linodeId, ipv4, registrationToken, target, caller, runner,
                 transportN, i, probes, sleeps, outputs, logged, trace>>

\* ---------------------------------------------------------- catch, cleanup
\* run, lines 185-187: the failure is reported, cleanup only with an id
Catch ==
  /\ pc = "catch"
  /\ failed' = Append(failed, error.message)
  /\ IF Truthy(linodeId) THEN Goto("cleanup") ELSE Goto("Failed")
  /\ UNCHANGED <<sshResult, inp, linodeId, ipv4, registrationToken, target, caller, runner,
                 transportN, i, probes, sleeps, outputs, logged, trace>>

\* variant of Cleanup: the catch of the cleanup reports its error as a failure
Cleanup_ReportsAgain ==
  /\ pc = "cleanup"
  /\ Goto("Failed")
  /\ logged' = Append(logged, CleanupLog(Err("ReferenceError: not defined", <<>>, 0, 0)))
  /\ failed' = Append(failed, Msg("ReferenceError: not defined", <<>>, 0))
  /\ UNCHANGED <<sshResult, inp, linodeId, ipv4, registrationToken, target, caller, runner,
                 transportN, i, probes, sleeps, outputs, trace>>

\* run, lines 188-195: the arguments of unregisterRunner are evaluated first;
\* an identifier that is not in scope raises a ReferenceError, which the
\* catch of the cleanup logs
Cleanup ==
  /\ pc = "cleanup"
  /\ IF CleanupArgs \subseteq CatchScope
       THEN /\ target' = linodeId
            /\ caller' = "cleanup"
            /\ Goto("runnersGet")
            /\ logged' = logged
       ELSE /\ Goto("Failed")
            /\ logged' = Append(logged, CleanupLog(Err("ReferenceError: not defined", <<>>, 0, 0)))
            /\ UNCHANGED <<sshResult, target, caller>>
  /\ UNCHANGED <<sshResult, inp, linodeId, ipv4, registrationToken, runner, transportN, i,
                 probes, sleeps, outputs, failed, trace>>

Next ==
  \/ ReadInputs
  \/ Validate
  \/ CreateLinodeOk
  \/ CreateLinodeFail
  \/ SSHProbeOk
  \/ SSHProbeFail
  \/ SSHExhausted
  \/ MintOk
  \/ MintFail
  \/ ConfigureOk
  \/ ConfigureFail
  \/ DestroyById
  \/ GetLinodesOk
  \/ GetLinodesFail
  \/ DestroyNoTarget
  \/ RunnersGetOk
  \/ RunnersGetFail
  \/ RunnerDeleteReturns
  \/ RunnerDeleteThrows
  \/ DeleteLinodeOk
  \/ DeleteLinodeFail
  \/ Catch
  \/ Cleanup

Spec == Init /\ [][Next]_vars

\* every step of run that is enabled is eventually taken: the event loop
\* resumes each continuation, and every awaited call settles
FairSpec == Spec /\ WF_vars(Next)

\* ------------------------------------------- the tags parsing on its own
\* run, line 80, for every tags string up to MaxTagLen
InitTags ==
  /\ pc = "start"
  /\ \E raw \in TagStrings : inp = [NoInputs EXCEPT !.tagsRaw = raw]
  /\ linodeId = NULL
  /\ ipv4 = NULL
  /\ registrationToken = NULL
  /\ target = NULL
  /\ caller = NULL
  /\ runner = NULL
  /\ error = NoError
  /\ transportN = 0
  /\ i = 0
  /\ probes = 0
  /\ sleeps = 0
  /\ sshResult = "none"
  /\ outputs = NoOutputs
  /\ failed = <<>>
  /\ logged = <<>>
  /\ trace = <<>>

\* run, line 80: const tags = ...
ReadTags ==
  /\ pc = "start"
  /\ inp' = [inp EXCEPT !.tags = ParseTags(inp.tagsRaw)]
  /\ pc' = "tagsRead"
  /\ UNCHANGED <<sshResult, linodeId, ipv4, registrationToken, target, caller, runner, error,
                 transportN, i, probes, sleeps, outputs, failed, logged, trace>>

NextTags == ReadTags

SpecTags == InitTags /\ [][NextTags]_vars

\* ============================================================== properties
Terminal == pc \in {"Done", "Failed"}

\* indices of the trace at which operation op was called
Idx(op) == {k \in 1..Len(trace) : trace[k].op = op}

\* calls of deleteLinode, answered or rejected, with the given id
DeleteCalls(id) ==
  {k \in Idx("deleteLinode") \cup Idx("deleteLinode.failed") : trace[k].arg = id}

AllDeleteCalls == Idx("deleteLinode") \cup Idx("deleteLinode.failed")

\* completed and rejected calls of the runner list and the runner DELETE
UnregisterCalls ==
  Idx("runners.get") \cup Idx("runners.get.failed")
    \cup Idx("runners.delete") \cup Idx("runners.delete.failed")

TimeoutText == "Unable to connect after attempts"

\* C1: a create run in which createLinode returned an id and waitForSSH ran
\* out of retries has called deleteLinode with that id exactly once when it
\* ends.
C1_DeleteOnceAfterTimeout ==
  (Terminal /\ inp.action = "create" /\ Truthy(linodeId) /\ sshResult = "threw")
    => Cardinality(DeleteCalls(linodeId)) = 1

\* C2: a create run that obtained an id and ends in Failed has attempted the
\* unregistration and then passed the created id to deleteLinode.
C2_FailedCreateRanCleanup ==
  (pc = "Failed" /\ Truthy(linodeId))
    => \E d \in DeleteCalls(linodeId) : \E u \in UnregisterCalls : u < d

\* C3: in a destroy run, an unregistration that failed with a status other
\* than 204 and 422 (on the runner list or on the runner DELETE) is followed
\* by a call of deleteLinode on the target.
C3_DeleteDespiteUnregisterFailure ==
  (Terminal /\ inp.action = "destroy"
     /\ \E k \in Idx("runners.get.failed") \cup Idx("runners.delete.failed")
                   \cup Idx("runners.delete") : trace[k].n \notin {204, 422})
    => DeleteCalls(target) # {}

\* C4: in a destroy by phrase, once the listing matched zero or several
\* instances, deleteLinode is never called and the run fails: with the
\* not-found error for zero matches, with the ambiguity error otherwise.
C4_NoDeleteUnlessSingleMatch ==
  \A k \in Idx("getLinodes") :
    (trace[k].n >= 0 /\ trace[k].n # 1) =>
      /\ inp.action = "destroy" /\ ~Truthy(inp.machineId) /\ inp.searchPhrase # <<>>
      /\ AllDeleteCalls = {}
      /\ UnregisterCalls = {}
      /\ pc \in {"catch", "Failed"}
      /\ error.message.arg = inp.searchPhrase
      /\ error.message.text =
           IF trace[k].n = 0
             THEN "No Linode instances found matching the search phrase"
             ELSE "Multiple Linode instances found matching the search phrase"
      /\ (pc = "Failed" => failed = <<error.message>>)

C4_Witness ==
  /\ pc = "Failed"
  /\ \E k \in Idx("getLinodes") : trace[k].n = 2

\* C5: every call of deleteLinode comes after a runner-list lookup of the same
\* run that returned, and, when that lookup found a runner with the label,
\* after the runner DELETE that returned.
C5_UnregisterBeforeDelete ==
  \A d \in AllDeleteCalls :
    \E g \in Idx("runners.get") :
      /\ g < d
      /\ (trace[g].arg # NULL => \E x \in Idx("runners.delete") : g < x /\ x < d)

C5_Witness ==
  /\ pc = "Done"
  /\ inp.action = "destroy"
  /\ Idx("runners.delete") # {}
  /\ Idx("deleteLinode") # {}

C7_SuccessAfterNFailures ==
  /\ sshResult = "true" => (probes = transportN + 1 /\ sleeps = transportN)
  /\ (transportN < retries /\ sshResult # "none") => sshResult = "true"

C7_Witness ==
  /\ sshResult = "true"
  /\ transportN = retries - 1
  /\ probes = retries

\* C8: with a transport that always fails, waitForSSH makes exactly retries
\* attempts and throws the error that names the address and the attempt count.
C8_ExhaustsExactlyRetries ==
  /\ pc = "waitForSSH" => probes <= retries
  /\ (transportN >= retries /\ sshResult # "none") => sshResult = "threw"
  /\ sshResult = "threw" =>
       /\ probes = retries
       /\ error.message = Msg(TimeoutText, <<ipv4>>, retries)

C8_Witness ==
  /\ sshResult = "threw"
  /\ transportN > retries
  /\ pc = "catch"

\* C9: a create run that fails after an id was obtained is marked failed
\* exactly once, with the message of the original error; what the cleanup
\* raises is logged and reported nowhere else.
C9_OriginalErrorReportedOnce ==
  (Truthy(linodeId) /\ pc \in {"cleanup", "runnersGet", "runnerDelete", "deleteLinode", "Failed"})
    => /\ failed = <<error.message>>
       /\ sshResult = "threw" => failed[1].text = TimeoutText
       /\ (sshResult = "true" /\ registrationToken = NULL) =>
            failed[1].text = "Request failed with status code"
       /\ registrationToken # NULL => failed[1].text = "Command failed"
       /\ pc = "Failed" =>
            (logged # <<>> /\ logged[Len(logged)].text =
                                "Failed to destroy Linode machine during cleanup")

C9_Witness ==
  /\ pc = "Failed"
  /\ Truthy(linodeId)
  /\ registrationToken # NULL
  /\ Len(logged) = 2

IdentityText == "Both organization and repo_name inputs are required."

\* C11: when organization or repo_name is empty, the run fails with the
\* identity error without having called the cloud provider or the runner
\* registry, whatever the action.
C11_FailFastWithoutIdentity ==
  (pc # "start" /\ (~Truthy(inp.repoOwner) \/ ~Truthy(inp.repoName))) =>
    /\ trace = <<>>
    /\ pc \in {"validate", "catch", "Failed"}
    /\ pc \in {"catch", "Failed"} => error.message.text = IdentityText
    /\ pc = "Failed" => (failed = <<error.message>> /\ logged = <<>>)

C11_Witness ==
  /\ pc = "Failed"
  /\ inp.action = "create"
  /\ inp.repoOwner = "acme"
  /\ inp.repoName = ""

\* C12: a create request without machine_type or without image fails on input
\* resolution, with an error that names the missing field, and createLinode
\* is never called.
C12_CreateRequiresTypeAndImage ==
  (inp.action = "create" /\ (inp.machineType = "" \/ inp.image = "")) =>
    /\ Idx("createLinode.request") = {}
    /\ Terminal => (pc = "Failed" /\ Len(failed) = 1
                      /\ failed[1].text \in {"machine_type is required", "image is required",
                                             IdentityText})

\* C13: a destroy request with neither machine_id nor search_phrase fails and
\* makes no unregistration, getLinodes or deleteLinode call.
C13_DestroyWithoutTargetFails ==
  (pc # "start" /\ inp.action = "destroy" /\ ~Truthy(inp.machineId) /\ inp.searchPhrase = <<>>) =>
    /\ trace = <<>>
    /\ pc \in {"validate", "destroy", "catch", "Failed"}
    /\ (pc \in {"catch", "Failed"} /\ Truthy(inp.repoOwner) /\ Truthy(inp.repoName)) =>
         error.message.text = "Either machine_id or search_phrase must be provided for destruction"
    /\ pc = "Failed" => failed = <<error.message>>

C13_Witness ==
  /\ pc = "Failed"
  /\ inp.action = "destroy"
  /\ inp.repoOwner = "acme"
  /\ inp.repoName = "widgets"
  /\ inp.machineId = ""
  /\ inp.searchPhrase = <<>>

\* C14: the parsed tags are the trimmed, non-empty tokens of the tags string:
\* no parsed tag is empty or has surrounding whitespace; "a, b ,c" gives
\* {a, b, c} and "" gives no tag.
C14_TagsTrimmedNonEmpty ==
  pc = "tagsRead" =>
    /\ \A k \in 1..Len(inp.tags) :
         /\ inp.tags[k] # <<>>
         /\ Head(inp.tags[k]) # " "
         /\ inp.tags[k][Len(inp.tags[k])] # " "
    /\ inp.tagsRaw = ExampleTags =>
         {inp.tags[k] : k \in 1..Len(inp.tags)} = {<<"a">>, <<"b">>, <<"c">>}
    /\ inp.tagsRaw = <<>> => inp.tags = <<>>
\* C15: every run ends, and stays, in Done or in Failed; a run that ended in
\* Failed has reported one failure, the message of the error it caught; a run
\* that ended in Done has reported none.
C15_TerminatesWithCause ==
  /\ <>[]Terminal
  /\ [](pc = "Failed" => (failed = <<error.message>> /\ error # NoError))
  /\ [](pc = "Done" => (failed = <<>> /\ error = NoError))

C15_Witness ==
  /\ pc = "Failed"
  /\ Idx("deleteLinode.failed") # {}
  /\ Len(failed) = 1

\* C16: when the runner list has no runner with the label, unregisterRunner
\* issues no runner DELETE, logs no error and returns, and the next call of
\* the run is deleteLinode on the target.
C16_MissingRunnerIsNoError ==
  \A g \in Idx("runners.get") :
    trace[g].arg = NULL =>
      /\ Idx("runners.delete") \cup Idx("runners.delete.failed") = {}
      /\ logged = <<>>
      /\ pc \in {"deleteLinode", "Done", "catch", "Failed"}
      /\ pc = "deleteLinode" => (Len(trace) = g /\ error = NoError)
      /\ pc # "deleteLinode" =>
           /\ Len(trace) = g + 1
           /\ trace[g + 1].op \in {"deleteLinode", "deleteLinode.failed"}
           /\ trace[g + 1].arg = target

C16_Witness ==
  /\ pc = "Done"
  /\ \E g \in Idx("runners.get") : trace[g].arg = NULL

\* C17: waitForSSH sleeps once after every failed attempt, the last one
\* included: the sleeps always number the failed attempts, and when every
\* attempt failed it has slept retries times before it throws.
C17_SleepAfterEveryFailure ==
  /\ sleeps = Cardinality(Idx("sleep"))
  /\ sleeps = (IF probes < transportN THEN probes ELSE transportN)
  /\ sshResult = "threw" =>
       /\ sleeps = retries
       /\ trace[Len(trace)].op = "sleep"

C17_Witness ==
  /\ sshResult = "threw"
  /\ sleeps = retries
  /\ pc = "Failed"

\* C18: when createLinode itself fails, no id is held and the run fails without
\* cleanup: no registry call, no deleteLinode call, nothing logged by a cleanup.
C18_NoCleanupWithoutId ==
  (\E k \in Idx("createLinode") : trace[k].arg = NULL) =>
    /\ linodeId = NULL
    /\ pc \in {"catch", "Failed"}
    /\ UnregisterCalls = {}
    /\ AllDeleteCalls = {}
    /\ Idx("mint") = {}
    /\ logged = <<>>
    /\ DOMAIN outputs = {}
    /\ pc = "Failed" => failed = <<Msg("createLinode failed", <<>>, 0)>>

C18_Witness ==
  /\ pc = "Failed"
  /\ \E k \in Idx("createLinode") : trace[k].arg = NULL

\* C19: a create run that ends in Done has called neither deleteLinode nor the
\* unregistration and keeps its instance; the cleanup is entered only by a run
\* that has reported a failure.
C19_SuccessfulCreateKeepsVm ==
  /\ (pc = "Done" /\ inp.action = "create") =>
       /\ AllDeleteCalls = {}
       /\ UnregisterCalls = {}
       /\ failed = <<>>
       /\ logged = <<>>
       /\ Truthy(linodeId)
       /\ outputs["machine_id"] = linodeId
  /\ (pc = "cleanup" \/ caller = "cleanup") => failed # <<>>
  /\ (inp.action = "create" /\ AllDeleteCalls \cup UnregisterCalls # {}) => failed # <<>>

C19_Witness ==
  /\ pc = "Done"
  /\ inp.action = "create"
  /\ probes = 1
  /\ DOMAIN outputs = {"machine_id", "machine_ip", "runner_label"}

\* C20: in a destroy run given both machine_id and search_phrase, getLinodes
\* is never called, the phrase appears in no error, and deleteLinode is only
\* ever called with the given machine_id.
C20_MachineIdTakesPrecedence ==
  (inp.action = "destroy" /\ Truthy(inp.machineId) /\ inp.searchPhrase # <<>>) =>
    /\ Idx("getLinodes") = {}
    /\ target \in {NULL, inp.machineId}
    /\ error.message.arg # inp.searchPhrase
    /\ \A d \in AllDeleteCalls : trace[d].arg = inp.machineId

C20_Witness ==
  /\ pc = "Done"
  /\ inp.machineId = "55"
  /\ inp.searchPhrase = <<"a">>
  /\ Idx("deleteLinode") # {}
====
